---- MODULE Spec2Model ----
(***************************************************************************)
(* Model of vimiv's image persistence: ImageFileHandler (the main-thread   *)
(* facade that decides when to write) and WriteImageRunner (the job run by *)
(* the global QThreadPool), over an abstract file system; and of the exif  *)
(* module: the external key handlers of piexif and pyexiv2, the internal   *)
(* key handler and MetadataHandler; and of the command history: History   *)
(* and the CommandLine that owns it.                                       *)
(* Sources: src/vimiv/imutils/imfile_handler.py, src/vimiv/imutils/exif.py,*)
(* src/vimiv/commands/history.py, src/vimiv/gui/commandline.py             *)
(***************************************************************************)
EXTENDS Integers, Sequences, FiniteSets, TLC

(* ---------------------------------------------------------------------- *)
(* Bounds                                                                   *)
(* ---------------------------------------------------------------------- *)

\* Number of WriteImageRunner objects created in one behaviour.
MaxJobs == 2

\* Largest QThreadPool.maxThreadCount() considered for the global pool (Qt
\* sets it to the number of cores of the machine).
MaxThreads == 2

(* ---------------------------------------------------------------------- *)
(* The file system                                                          *)
(* ---------------------------------------------------------------------- *)

\* Paths of the working directory plus one path on another file system.
\* a.jpg: an existing JPEG carrying exif.  n.jpg: a name not yet used.
\* m.gif: an existing animation; Qt decodes GIF and has no encoder for it.
\* t.png: an existing file that is no image.
\* /mnt/c.jpg: a name not yet used, on another device.
Paths == {"a.jpg", "n.jpg", "m.gif", "t.png", "/mnt/c.jpg"}

\* The file system holding the current working directory holds these paths.
CwdDevice == {"a.jpg", "n.jpg", "m.gif", "t.png"}

\* exif.py, class ExifOrientation: the values of the orientation tag the
\* files here carry; "absent" stands for a file without the tag.
Normal == "Normal"

Rotation90 == "Rotation90"

\* A file's content: k its kind, x whether it carries exif, by whether a
\* runner of this program wrote it (1) or it was there at start (0); o the
\* Orientation tag of its exif and dt whether its exif holds a DateTime tag.
File(k, x, by) == [k |-> k, x |-> x, by |-> by, o |-> "absent", dt |-> FALSE]

\* A file carrying exif with the given tags.
WithExif(c, o, dt) == [c EXCEPT !.x = TRUE, !.o = o, !.dt = dt]

NoFile == File("absent", FALSE, 0)

EmptyFile == File("empty", FALSE, 1)

\* os.path.splitext(path)[1]
Ext(path) ==
    CASE path \in {"a.jpg", "n.jpg", "/mnt/c.jpg"} -> ".jpg"
      [] path = "m.gif" -> ".gif"
      [] path = "t.png" -> ".png"
      [] OTHER -> ""

\* os.getcwd(): the working directory, and the directory a path lies in.
getcwd == "."

dirname(path) == IF path = "/mnt/c.jpg" THEN "/mnt" ELSE getcwd

\* os.path.exists / os.path.isfile on a regular file.
Exists(c) == c.k # "absent"

\* QImageReader(path).canRead(): decided by the content, not by the name.
CanRead(c) == c.k \in {"jpeg", "png", "gif", "svg"}

\* files.is_image(path): a valid image, by content.
IsImage(c) == c.k \in {"jpeg", "png", "gif", "svg"}

\* The kinds of content that are a complete, decodable image.
ImageKinds == {"jpeg", "png", "gif", "svg"}

\* A complete encoded image file.
Complete(c) == c.k \in ImageKinds

(* ---------------------------------------------------------------------- *)
(* Buffers (Pixmaps.current)                                                *)
(* ---------------------------------------------------------------------- *)

\* What Pixmaps.current refers to: "none" (None), "pixmap" (a QPixmap) or
\* "movie" (a QMovie).
BufferKinds == {"none", "pixmap", "movie"}

NoBuffer == "none"

VARIABLES
    h,          \* ImageFileHandler: _path, current pixmap, the two dirty flags
    jobs,       \* the WriteImageRunners created so far, in submission order
    fs,         \* path -> file content
    autowrite,  \* settings.Names.IMAGE_AUTOWRITE
    piexif,     \* whether the piexif module could be imported
    threads,    \* QThreadPool.globalInstance().maxThreadCount()
    mainpc,     \* main thread: "running", "waitForDone", "exited", "killed"
    pyexiv2,    \* whether the pyexiv2 module could be imported
    ExternalKeyHandler, \* exif.py: the class this name is bound to
    mh,         \* a MetadataHandler: filename, _ext_handler
    eh,         \* an ExternalKeyHandler instance a caller holds: class, _metadata
    ret,        \* how the last call into exif.py ended
    snap,       \* save twice: the destination, and the files after the first save
    cl,         \* the CommandLine: its History and the text of the line edit
    hret,       \* how the last call into the command line ended
    before      \* the stored commands before the temporary element went in

\* The variables of exif.py and of the save-twice scenario.
\* The variables of the command line.
hvars == <<cl, hret, before>>

xvars == <<pyexiv2, ExternalKeyHandler, mh, eh, ret, snap, cl, hret, before>>

vars == <<h, jobs, fs, autowrite, piexif, threads, mainpc,
          pyexiv2, ExternalKeyHandler, mh, eh, ret, snap, cl, hret, before>>

(* ---------------------------------------------------------------------- *)
(* WriteImageRunner objects and the thread pool                             *)
(* ---------------------------------------------------------------------- *)

\* WriteImageRunner(pixmap, path).  pc: where run() stands; res: how run()
\* ended ("Committed", "Rejected", "Raised" when an exception left run());
\* kind: the WriteError or the exception; tmp: the temporary file it made
\* and tmpdir the directory it made it in.
Runner(pixmap, path, pc) ==
    [pixmap |-> pixmap, path |-> path, pc |-> pc, res |-> "", kind |-> "",
     tmp |-> NoFile, tmpdir |-> ""]

JobIds == 1..Len(jobs)

\* Runners a pool thread is executing.
Active(js) == {j \in 1..Len(js) : js[j].pc \notin {"queued", "done", "killed"}}

Queued(js) == {j \in 1..Len(js) : js[j].pc = "queued"}

\* QThreadPool.start(runner): runs it on a free thread, else queues it (a
\* thread that becomes free serves the queue first).
PoolStart(js, pixmap, path) ==
    Append(js, Runner(pixmap, path,
                      IF Cardinality(Active(js)) < threads /\ Queued(js) = {}
                      THEN "can_write" ELSE "queued"))

\* A waitForDone that waits for the running runners and not the queued ones.
waitForDone_running_only(js) ==
    \A j \in 1..Len(js) : js[j].pc \in {"done", "queued"}

\* QThreadPool.waitForDone(): returns once no runner is queued or running.
waitForDone(js) == \A j \in 1..Len(js) : js[j].pc = "done"

(* ---------------------------------------------------------------------- *)
(* ImageFileHandler (main thread), as functions of st = [h, jobs]           *)
(* ---------------------------------------------------------------------- *)

\* Transform.changed() / Manipulator.changed(): the two dirty flags.
TransformChanged(hh) == hh.tch

ManipulateChanged(hh) == hh.mch

\* Transform.reset()
TransformReset(hh) == [hh EXCEPT !.tch = FALSE]

_reset(st) == [st EXCEPT !.h = TransformReset(@)]

write_pixmap(st, pixmap, path) ==
    _reset([st EXCEPT !.jobs = PoolStart(@, pixmap, path)])

_maybe_write(st, path, aw) ==
    IF ~aw THEN _reset(st)
    ELSE IF TransformChanged(st.h) \/ ManipulateChanged(st.h)
         THEN write_pixmap(st, st.h.cur, path)
         ELSE st

\* _set_original: original = transformed = current = pixmap
_set_original(hh, buf) == [hh EXCEPT !.cur = buf]

_load(st, path, files) ==
    LET c == files[path] IN
    IF ~CanRead(c) THEN st
    ELSE LET buf == CASE c.k = "svg" -> NoBuffer
                      [] c.k = "gif" -> "movie"
                      [] OTHER -> "pixmap"
         IN [st EXCEPT !.h = [_set_original(@, buf) EXCEPT !.path = path]]

_on_new_image_opened(st, path, aw, files) ==
    _load(_maybe_write(st, st.h.path, aw), path, files)

St == [h |-> h, jobs |-> jobs]

\* ImageFileHandler.__init__: no path, no pixmap, nothing changed.
NoHandler == [path |-> "", cur |-> NoBuffer, tch |-> FALSE, mch |-> FALSE]

\* The handlers below are guarded by the bound on the runners created.
Fits(st) == Len(st.jobs) <= MaxJobs

NewImageOpened(path) ==
    /\ mainpc = "running"
    /\ LET st == _on_new_image_opened(St, path, autowrite, fs) IN
        /\ Fits(st)
        /\ h' = st.h
        /\ jobs' = st.jobs
    /\ UNCHANGED <<fs, autowrite, piexif, threads, mainpc>>
    /\ UNCHANGED xvars

\* :write [path]; imstorage.current() is the path of the image shown.  The
\* command is not run without a path before a first image is shown.
write(path) ==
    /\ mainpc = "running"
    /\ LET dest == IF path # "" THEN path ELSE h.path
           st == write_pixmap(St, h.cur, dest)
       IN /\ dest \in Paths
          /\ Fits(st)
          /\ h' = st.h
          /\ jobs' = st.jobs
    /\ UNCHANGED <<fs, autowrite, piexif, threads, mainpc>>
    /\ UNCHANGED xvars

\* _on_quit up to the call of waitForDone, in which the main thread blocks.
_on_quit ==
    /\ mainpc = "running"
    /\ LET st == _maybe_write(St, h.path, autowrite) IN
        /\ Fits(st)
        /\ h' = st.h
        /\ jobs' = st.jobs
    /\ mainpc' = "waitForDone"
    /\ UNCHANGED <<fs, autowrite, piexif, threads>>
    /\ UNCHANGED xvars

\* waitForDone returns, _on_quit returns and the process exits.
QuitReturn ==
    /\ mainpc = "waitForDone"
    /\ waitForDone(jobs)
    /\ mainpc' = "exited"
    /\ UNCHANGED <<h, jobs, fs, autowrite, piexif, threads>>
    /\ UNCHANGED xvars

\* A rotate or flip: Transform marks itself changed and calls
\* update_transformed with the new pixmap.
TransformEdit ==
    /\ mainpc = "running"
    /\ h.cur = "pixmap"
    /\ h' = [h EXCEPT !.tch = TRUE]
    /\ UNCHANGED <<jobs, fs, autowrite, piexif, threads, mainpc>>
    /\ UNCHANGED xvars

\* A brightness or contrast change: Manipulator marks itself changed and
\* calls update_pixmap with the new pixmap.
ManipulateEdit ==
    /\ mainpc = "running"
    /\ h.cur = "pixmap"
    /\ h' = [h EXCEPT !.mch = TRUE]
    /\ UNCHANGED <<jobs, fs, autowrite, piexif, threads, mainpc>>
    /\ UNCHANGED xvars

\* :set image.autowrite
SetAutowrite ==
    /\ mainpc = "running"
    /\ autowrite' = ~autowrite
    /\ UNCHANGED <<h, jobs, fs, piexif, threads, mainpc>>
    /\ UNCHANGED xvars

\* The process is killed (SIGKILL, power loss): nothing runs afterwards, the
\* memory of the process is gone and the files stay as they are.
Killed(job) ==
    IF job.pc = "done" THEN job
    ELSE [Runner(NoBuffer, "", "killed") EXCEPT !.tmp = job.tmp]

Kill ==
    /\ mainpc \in {"running", "waitForDone"}
    /\ mainpc' = "killed"
    /\ h' = NoHandler
    /\ jobs' = [j \in 1..Len(jobs) |-> Killed(jobs[j])]
    /\ UNCHANGED <<fs, autowrite, piexif, threads>>
    /\ UNCHANGED xvars

(* ---------------------------------------------------------------------- *)
(* WriteImageRunner.run (pool threads), one action per step                 *)
(* ---------------------------------------------------------------------- *)

Alive == mainpc \in {"running", "waitForDone"}

\* isinstance(self._pixmap, QPixmap)
IsPixmap(buf) == buf = "pixmap"

\* QPixmap.save(filename) picks the format from the file name's suffix and
\* returns False, writing nothing, when Qt has no encoder for it.
Encodable(ext) == ext \in {".jpg", ".png"}

Encoded(ext) == File(IF ext = ".jpg" THEN "jpeg" ELSE "png", FALSE, 1)

\* piexif.transplant(src, dest): [exc, dest].  It opens src (OSError when
\* there is no such file), raises InvalidImageDataError when src or dest is
\* not a JPEG, ValueError when src carries no exif, and else writes src's
\* exif, as it is, into dest.
Transplant(src, dest) ==
    IF ~Exists(src) THEN [exc |-> "OSError", dest |-> dest]
    ELSE IF src.k # "jpeg" THEN [exc |-> "InvalidImageDataError", dest |-> dest]
    ELSE IF ~src.x THEN [exc |-> "ValueError", dest |-> dest]
    ELSE IF dest.k # "jpeg" THEN [exc |-> "InvalidImageDataError", dest |-> dest]
    ELSE [exc |-> "", dest |-> WithExif(dest, src.o, src.dt)]

\* _copy_exif(src, dest): InvalidImageDataError is swallowed, the rest is not.
_copy_exif(src, dest) ==
    LET r == Transplant(src, dest) IN
    IF r.exc = "InvalidImageDataError" THEN [exc |-> "", dest |-> dest] ELSE r

\* os.rename(filename, path) fails with OSError (EXDEV) across file systems.
RenameFails(path) == path \notin CwdDevice

\* run() has ended and the pool has deleted the runner (autoDelete): what is
\* left of it is the outcome, the kind of buffer it was given and the
\* temporary file, if it left one behind.
Done(job, res, kind) ==
    [Runner(job.pixmap, "", "done") EXCEPT !.res = res, !.kind = kind,
                                            !.tmp = job.tmp]

\* run() ends: WriteError caught and logged ("Rejected"), or "Saved" logged.
Rejected(job, kind) == Done(job, "Rejected", kind)

Committed(job) == Done(job, "Committed", "")

\* An exception that is no WriteError leaves run().
Raised(job, exc) == Done(job, "Raised", exc)

At(job, pc) == [job EXCEPT !.pc = pc]

\* A pool thread that became free takes the oldest queued runner.
PoolRunNext(j) ==
    /\ Alive
    /\ j \in Queued(jobs)
    /\ \A i \in Queued(jobs) : j <= i
    /\ Cardinality(Active(jobs)) < threads
    /\ jobs' = [jobs EXCEPT ![j] = At(@, "can_write")]
    /\ UNCHANGED <<h, fs, autowrite, piexif, threads, mainpc>>
    /\ UNCHANGED xvars

\* A _can_write that turns away a missing pixmap only (if self._pixmap is None).
can_write_job_none_only(job, files) ==
    IF job.pixmap = "none" THEN Rejected(job, "UnsupportedBufferKind")
    ELSE IF Exists(files[job.path]) THEN At(job, "can_read")
    ELSE At(job, "mkstemp")

\* _can_write: the isinstance test and os.path.exists.
can_write_job(job, files) ==
    IF ~IsPixmap(job.pixmap) THEN Rejected(job, "UnsupportedBufferKind")
    ELSE IF Exists(files[job.path]) THEN At(job, "can_read")
    ELSE At(job, "mkstemp")

\* A _can_write that asks os.path.isfile, not QImageReader, about the file.
can_read_job_isfile(job, files) ==
    IF ~Exists(files[job.path]) THEN Rejected(job, "DestinationNotAnImage")
    ELSE At(job, "mkstemp")

\* _can_write: QImageReader(path).canRead() on the existing destination.
can_read_job(job, files) ==
    IF ~CanRead(files[job.path]) THEN Rejected(job, "DestinationNotAnImage")
    ELSE At(job, "mkstemp")

run_can_write(j) ==
    /\ Alive
    /\ j \in JobIds
    /\ jobs[j].pc = "can_write"
    /\ jobs' = [jobs EXCEPT ![j] = can_write_job(@, fs)]
    /\ UNCHANGED <<h, fs, autowrite, piexif, threads, mainpc>>
    /\ UNCHANGED xvars

run_can_read(j) ==
    /\ Alive
    /\ j \in JobIds
    /\ jobs[j].pc = "can_read"
    /\ jobs' = [jobs EXCEPT ![j] = can_read_job(@, fs)]
    /\ UNCHANGED <<h, fs, autowrite, piexif, threads, mainpc>>
    /\ UNCHANGED xvars

\* tempfile.mkstemp(dir=os.getcwd(), suffix=ext); os.close(handle)
write_mkstemp(j) ==
    /\ Alive
    /\ j \in JobIds
    /\ jobs[j].pc = "mkstemp"
    /\ jobs' = [jobs EXCEPT ![j] = [At(@, "save") EXCEPT !.tmp = EmptyFile,
                                                        !.tmpdir = getcwd]]
    /\ UNCHANGED <<h, fs, autowrite, piexif, threads, mainpc>>
    /\ UNCHANGED xvars

\* self._pixmap.save(filename) starts: the encoder writes the first bytes,
\* or save returns False at once and the temporary file stays empty.
save_begin(job) ==
    IF Encodable(Ext(job.path))
    THEN [At(job, "save_end") EXCEPT !.tmp = File("partial", FALSE, 1)]
    ELSE At(job, "copy_exif")

write_save(j) ==
    /\ Alive
    /\ j \in JobIds
    /\ jobs[j].pc = "save"
    /\ jobs' = [jobs EXCEPT ![j] = save_begin(@)]
    /\ UNCHANGED <<h, fs, autowrite, piexif, threads, mainpc>>
    /\ UNCHANGED xvars

\* self._pixmap.save(filename) returns: the temporary file is complete.
write_save_end(j) ==
    /\ Alive
    /\ j \in JobIds
    /\ jobs[j].pc = "save_end"
    /\ jobs' = [jobs EXCEPT ![j] =
                  [At(@, "copy_exif") EXCEPT !.tmp = Encoded(Ext(jobs[j].path))]]
    /\ UNCHANGED <<h, fs, autowrite, piexif, threads, mainpc>>
    /\ UNCHANGED xvars

\* if piexif is not None: self._copy_exif(self._path, filename)
copy_exif_job(job, files, havePiexif) ==
    IF ~havePiexif THEN At(job, "rename")
    ELSE LET r == _copy_exif(files[job.path], job.tmp) IN
         IF r.exc # "" THEN Raised(job, r.exc)
         ELSE [At(job, "rename") EXCEPT !.tmp = r.dest]

write_copy_exif(j) ==
    /\ Alive
    /\ j \in JobIds
    /\ jobs[j].pc = "copy_exif"
    /\ jobs' = [jobs EXCEPT ![j] = copy_exif_job(@, fs, piexif)]
    /\ UNCHANGED <<h, fs, autowrite, piexif, threads, mainpc>>
    /\ UNCHANGED xvars

\* os.rename(filename, self._path)
write_rename(j) ==
    /\ Alive
    /\ j \in JobIds
    /\ jobs[j].pc = "rename"
    /\ IF RenameFails(jobs[j].path)
       THEN /\ jobs' = [jobs EXCEPT ![j] = Raised(@, "OSError")]
            /\ fs' = fs
       ELSE /\ fs' = [fs EXCEPT ![jobs[j].path] = jobs[j].tmp]
            /\ jobs' = [jobs EXCEPT ![j] = [At(@, "isfile") EXCEPT !.tmp = NoFile]]
    /\ UNCHANGED <<h, autowrite, piexif, threads, mainpc>>
    /\ UNCHANGED xvars

\* if not os.path.isfile(self._path): raise WriteError
isfile_job(job, files) ==
    IF ~Exists(files[job.path]) THEN Rejected(job, "FileNotWritten")
    ELSE At(job, "is_image")

write_isfile(j) ==
    /\ Alive
    /\ j \in JobIds
    /\ jobs[j].pc = "isfile"
    /\ jobs' = [jobs EXCEPT ![j] = isfile_job(@, fs)]
    /\ UNCHANGED <<h, fs, autowrite, piexif, threads, mainpc>>
    /\ UNCHANGED xvars

\* elif not files.is_image(self._path): ...; otherwise _write returns and
\* run logs "Saved".
is_image_job(job, files) ==
    IF ~IsImage(files[job.path]) THEN At(job, "remove") ELSE Committed(job)

write_is_image(j) ==
    /\ Alive
    /\ j \in JobIds
    /\ jobs[j].pc = "is_image"
    /\ jobs' = [jobs EXCEPT ![j] = is_image_job(@, fs)]
    /\ UNCHANGED <<h, fs, autowrite, piexif, threads, mainpc>>
    /\ UNCHANGED xvars

\* os.remove(self._path); raise WriteError("No valid image written ...").
\* os.remove raises OSError when the file is no longer there.
write_remove(j) ==
    /\ Alive
    /\ j \in JobIds
    /\ jobs[j].pc = "remove"
    /\ IF ~Exists(fs[jobs[j].path])
       THEN /\ jobs' = [jobs EXCEPT ![j] = Raised(@, "OSError")]
            /\ fs' = fs
       ELSE /\ fs' = [fs EXCEPT ![jobs[j].path] = NoFile]
            /\ jobs' = [jobs EXCEPT ![j] = Rejected(@, "CorruptedWrite")]
    /\ UNCHANGED <<h, autowrite, piexif, threads, mainpc>>
    /\ UNCHANGED xvars

(* ---------------------------------------------------------------------- *)
(* exif.py: the external key handlers                                       *)
(* ---------------------------------------------------------------------- *)

\* The three classes the name ExternalKeyHandler can be bound to.
BaseClass == "_ExternalKeyHandlerBase"

PiexifClass == "_ExternalKeyHandlerPiexif"

Pyexiv2Class == "ExternalKeyHandler"

\* A decorator that asks for piexif first.
check_external_dependancy_piexif_first(handler, havePyexiv2, havePiexif) ==
    IF havePiexif THEN PiexifClass
    ELSE IF havePyexiv2 THEN handler
    ELSE BaseClass

\* @check_external_dependancy: the class the decorated name is bound to.
check_external_dependancy(handler, havePyexiv2, havePiexif) ==
    IF havePyexiv2 THEN handler
    ELSE IF havePiexif THEN PiexifClass
    ELSE BaseClass

\* has_exif_support = ExternalKeyHandler != _ExternalKeyHandlerBase
has_exif_support == ExternalKeyHandler # BaseClass

\* self._metadata.  st: "None" (piexif found no file), "unread" (a pyexiv2
\* ImageMetadata whose read() failed) or "read"; o, dt: the tags read.
Metadata(st, o, dt) == [st |-> st, o |-> o, dt |-> dt]

NoMetadata == Metadata("", "absent", FALSE)

\* An external key handler object; NoObject where there is none.
Object(cls, filename, metadata) ==
    [cls |-> cls, filename |-> filename, _metadata |-> metadata]

NoObject == Object("", "", NoMetadata)

\* The value of the DateTime tag of every file that has one.
DateTimeValue == "2021:01:01 12:00:00"

\* The names of the tags a _metadata holds, short (piexif.TAGS[ifd][tag]
\* ["name"]) and long (pyexiv2 keys).
TagNames(m) ==
    (IF m.o # "absent" THEN {"Orientation"} ELSE {})
        \cup (IF m.dt THEN {"DateTime"} ELSE {})

LongName(name) ==
    CASE name = "Orientation" -> "Exif.Image.Orientation"
      [] name = "DateTime" -> "Exif.Image.DateTime"
      [] OTHER -> name

TagValue(m, name) ==
    CASE name = "Orientation" -> m.o
      [] name = "DateTime" -> DateTimeValue
      [] OTHER -> ""

\* What a call returns: the exception that left it ("" for none), the object
\* as the call leaves it, the files as it leaves them, and the value
\* returned: a (key, name, value) triple, a collection of keys or a string.
Triple(key, name, value) == [key |-> key, name |-> name, value |-> value]

\* The Python value None where a triple is expected.
None3 == Triple("None", "None", "None")

Result(exc, obj, files, triple, keys, str) ==
    [exc |-> exc, obj |-> obj, files |-> files, triple |-> triple,
     keys |-> keys, str |-> str]

Raise(exc, obj, files) == Result(exc, obj, files, None3, {}, "")

ReturnNone(obj, files) == Result("", obj, files, None3, {}, "")

ReturnTriple(obj, files, t) == Result("", obj, files, t, {}, "")

ReturnKeys(obj, files, keys) == Result("", obj, files, None3, keys, "")

ReturnStr(obj, files, str) == Result("", obj, files, None3, {}, str)

\* base_key.rpartition(".")[2]
rpartition2(base_key) ==
    CASE base_key = "Exif.Image.DateTime" -> "DateTime"
      [] base_key = "vimiv.filesize" -> "filesize"
      [] base_key = "Vimiv.FileType" -> "FileType"
      [] base_key = "vimiv.foo" -> "foo"
      [] OTHER -> base_key

\* _ExternalKeyHandlerBase: every operation ends in raise_exception.
Base_init(filename, files) ==
    ReturnNone(Object(BaseClass, filename, NoMetadata), files)

raise_exception(obj, files) == Raise("UnsupportedExifOperation", obj, files)

\* piexif.load(filename): FileNotFoundError when there is no such file,
\* InvalidImageDataError when the file is no JPEG; the tags otherwise, none
\* for a JPEG without exif.
piexif_load(c) ==
    IF ~Exists(c) THEN [exc |-> "FileNotFoundError", m |-> NoMetadata]
    ELSE IF c.k # "jpeg" THEN [exc |-> "InvalidImageDataError", m |-> NoMetadata]
    ELSE [exc |-> "", m |-> Metadata("read", c.o, c.dt)]

\* _ExternalKeyHandlerPiexif.__init__
Piexif_init(filename, files) ==
    LET r == piexif_load(files[filename]) IN
    IF r.exc = "FileNotFoundError"
    THEN ReturnNone(Object(PiexifClass, filename, Metadata("None", "absent", FALSE)),
                    files)
    ELSE IF r.exc # "" THEN Raise(r.exc, NoObject, files)
    ELSE ReturnNone(Object(PiexifClass, filename, r.m), files)

\* _ExternalKeyHandlerPiexif.fetch_key: iterating None is a TypeError.
Piexif_fetch_key(obj, files, base_key) ==
    LET key == rpartition2(base_key) IN
    IF obj._metadata.st = "None" THEN Raise("TypeError", obj, files)
    ELSE IF key \in TagNames(obj._metadata)
    THEN ReturnTriple(obj, files, Triple(key, key, TagValue(obj._metadata, key)))
    ELSE ReturnNone(obj, files)

\* _ExternalKeyHandlerPiexif.get_keys, created and iterated to its end.
Piexif_get_keys(obj, files) ==
    IF obj._metadata.st = "None" THEN Raise("TypeError", obj, files)
    ELSE ReturnKeys(obj, files, TagNames(obj._metadata))

\* piexif.insert(exif_bytes, dest)
piexif_insert(m, dest) ==
    IF ~Exists(dest) THEN [exc |-> "FileNotFoundError", dest |-> dest]
    ELSE IF dest.k # "jpeg" THEN [exc |-> "InvalidImageDataError", dest |-> dest]
    ELSE [exc |-> "", dest |-> WithExif(dest, m.o, m.dt)]

\* _ExternalKeyHandlerPiexif.copy_metadata.  Subscripting None is a
\* TypeError; assigning to a key of the "0th" dict raises no KeyError.
Piexif_copy_metadata(obj, files, dest, reset_orientation) ==
    IF obj._metadata.st = "None" THEN Raise("TypeError", obj, files)
    ELSE LET m == IF reset_orientation
                  THEN [obj._metadata EXCEPT !.o = Normal]
                  ELSE obj._metadata
             o2 == [obj EXCEPT !._metadata = m]
             r == piexif_insert(m, files[dest])
         IN IF r.exc = "InvalidImageDataError" THEN ReturnNone(o2, files)
            ELSE IF r.exc # "" THEN Raise(r.exc, o2, files)
            ELSE ReturnNone(o2, [files EXCEPT ![dest] = r.dest])

\* _ExternalKeyHandlerPiexif.get_date_time: KeyError is suppressed, the
\* TypeError of subscripting None is not.
Piexif_get_date_time(obj, files) ==
    IF obj._metadata.st = "None" THEN Raise("TypeError", obj, files)
    ELSE IF obj._metadata.dt THEN ReturnStr(obj, files, DateTimeValue)
    ELSE ReturnStr(obj, files, "")

\* pyexiv2.ImageMetadata(filename).read(): FileNotFoundError when there is
\* no such file, OSError when exiv2 does not know the file's type.
pyexiv2_read(c) ==
    IF ~Exists(c) THEN [exc |-> "FileNotFoundError", m |-> NoMetadata]
    ELSE IF c.k \notin ImageKinds THEN [exc |-> "OSError", m |-> NoMetadata]
    ELSE [exc |-> "", m |-> Metadata("read", c.o, c.dt)]

\* ExternalKeyHandler.__init__: _metadata is bound before read() is called.
Pyexiv2_init(filename, files) ==
    LET r == pyexiv2_read(files[filename]) IN
    IF r.exc = "FileNotFoundError"
    THEN ReturnNone(Object(Pyexiv2Class, filename,
                           Metadata("unread", "absent", FALSE)), files)
    ELSE IF r.exc # "" THEN Raise(r.exc, NoObject, files)
    ELSE ReturnNone(Object(Pyexiv2Class, filename, r.m), files)

\* ExternalKeyHandler.fetch_key: the key as given, then with the prefixes.
\* An ImageMetadata that was not read raises OSError on every access.
Pyexiv2_fetch_key(obj, files, base_key) ==
    LET m == obj._metadata
        long == {LongName(n) : n \in TagNames(m)}
    IN IF m.st = "unread" THEN Raise("OSError", obj, files)
       ELSE IF base_key \in long
       THEN ReturnTriple(obj, files,
                Triple(base_key, rpartition2(base_key),
                       TagValue(m, rpartition2(base_key))))
       ELSE IF LongName(base_key) \in long
       THEN ReturnTriple(obj, files,
                Triple(LongName(base_key), base_key, TagValue(m, base_key)))
       ELSE ReturnNone(obj, files)

\* ExternalKeyHandler.get_keys, created and iterated to its end.
Pyexiv2_get_keys(obj, files) ==
    IF obj._metadata.st = "unread" THEN Raise("OSError", obj, files)
    ELSE ReturnKeys(obj, files, {LongName(n) : n \in TagNames(obj._metadata)})

\* ExternalKeyHandler.copy_metadata.  The assignment of the orientation
\* creates the tag where there was none; exiv2 writes exif into JPEG and
\* PNG files.
Pyexiv2_copy_metadata(obj, files, dest, reset_orientation) ==
    IF obj._metadata.st = "unread" THEN Raise("OSError", obj, files)
    ELSE LET m == IF reset_orientation
                  THEN [obj._metadata EXCEPT !.o = Normal]
                  ELSE obj._metadata
             o2 == [obj EXCEPT !._metadata = m]
         IN IF pyexiv2_read(files[dest]).exc # "" THEN ReturnNone(o2, files)
            ELSE IF files[dest].k \notin {"jpeg", "png"} THEN ReturnNone(o2, files)
            ELSE ReturnNone(o2, [files EXCEPT ![dest] = WithExif(@, m.o, m.dt)])

\* ExternalKeyHandler.get_date_time
Pyexiv2_get_date_time(obj, files) ==
    IF obj._metadata.st = "unread" THEN Raise("OSError", obj, files)
    ELSE IF obj._metadata.dt THEN ReturnStr(obj, files, DateTimeValue)
    ELSE ReturnStr(obj, files, "")

\* ExternalKeyHandler(filename), whatever class the name is bound to.
New(cls, filename, files) ==
    CASE cls = PiexifClass -> Piexif_init(filename, files)
      [] cls = Pyexiv2Class -> Pyexiv2_init(filename, files)
      [] OTHER -> Base_init(filename, files)

\* obj.fetch_key(key), obj.get_keys(), obj.get_date_time() and
\* obj.copy_metadata(dest, reset_orientation), by the class of obj.  The
\* base class has a copy_exif and no copy_metadata.
Call_fetch_key(obj, files, key) ==
    CASE obj.cls = PiexifClass -> Piexif_fetch_key(obj, files, key)
      [] obj.cls = Pyexiv2Class -> Pyexiv2_fetch_key(obj, files, key)
      [] OTHER -> raise_exception(obj, files)

Call_get_keys(obj, files) ==
    CASE obj.cls = PiexifClass -> Piexif_get_keys(obj, files)
      [] obj.cls = Pyexiv2Class -> Pyexiv2_get_keys(obj, files)
      [] OTHER -> raise_exception(obj, files)

Call_get_date_time(obj, files) ==
    CASE obj.cls = PiexifClass -> Piexif_get_date_time(obj, files)
      [] obj.cls = Pyexiv2Class -> Pyexiv2_get_date_time(obj, files)
      [] OTHER -> raise_exception(obj, files)

Call_copy_metadata(obj, files, dest, reset_orientation) ==
    CASE obj.cls = PiexifClass ->
            Piexif_copy_metadata(obj, files, dest, reset_orientation)
      [] obj.cls = Pyexiv2Class ->
            Pyexiv2_copy_metadata(obj, files, dest, reset_orientation)
      [] OTHER -> Raise("AttributeError", obj, files)

(* ---------------------------------------------------------------------- *)
(* exif.py: _InternalKeyHandler and MetadataHandler                         *)
(* ---------------------------------------------------------------------- *)

\* The keys of the dict _InternalKeyHandler is.
InternalKeys ==
    {"vimiv.filesize", "vimiv.xdimension", "vimiv.ydimension", "vimiv.filetype"}

\* The first element of the dict's values: the name shown.
InternalName(key) ==
    CASE key = "vimiv.filesize" -> "Vimiv.FileSize"
      [] key = "vimiv.xdimension" -> "Vimiv.XDimension"
      [] key = "vimiv.ydimension" -> "Vimiv.YDimension"
      [] key = "vimiv.filetype" -> "Vimiv.FileType"
      [] OTHER -> ""

\* The keys a caller asks for.
Keys ==
    {"vimiv.filesize", "Vimiv.FileType", "vimiv.foo", "DateTime",
     " Orientation", "Exif.Image.DateTime", "Model"}

\* The keys a caller looks up one at a time: those, and two more spellings
\* of internal keys.
LookupKeys == Keys \cup {"vimiv.filetype", "VIMIV.FILESIZE"}

\* str.strip()
strip(key) == IF key = " Orientation" THEN "Orientation" ELSE key

\* str.lower()
lower(key) ==
    CASE key = "Vimiv.FileType" -> "vimiv.filetype"
      [] key = "Vimiv.FileSize" -> "vimiv.filesize"
      [] key = "VIMIV.FILESIZE" -> "vimiv.filesize"
      [] key = "Vimiv.XDimension" -> "vimiv.xdimension"
      [] key = "Vimiv.YDimension" -> "vimiv.ydimension"
      [] key = "DateTime" -> "datetime"
      [] key = "Orientation" -> "orientation"
      [] key = " Orientation" -> " orientation"
      [] key = "Exif.Image.DateTime" -> "exif.image.datetime"
      [] key = "Model" -> "model"
      [] OTHER -> key

\* str.startswith("vimiv")
startswith_vimiv(key) ==
    key \in {"vimiv.filesize", "vimiv.xdimension", "vimiv.ydimension",
             "vimiv.filetype", "vimiv.foo"}

\* _InternalKeyHandler.__getitem__: dict.get gives None for a key that is not
\* in the dict, and unpacking None is a TypeError.  The values come from the
\* file system and QImageReader.
Internal_getitem(m, files, key) ==
    IF lower(key) \notin InternalKeys THEN Raise("TypeError", m, files)
    ELSE ReturnTriple(m, files,
            Triple(InternalName(lower(key)), InternalName(lower(key)), "value"))

\* _InternalKeyHandler.get_keys
Internal_get_keys == {InternalName(k) : k \in InternalKeys}

\* MetadataHandler.__init__
MetadataHandler(filename) == [filename |-> filename, _ext_handler |-> NoObject]

NoMetadataHandler == MetadataHandler("")

\* What a MetadataHandler has: the attributes __init__ binds, the two
\* properties and the three methods.
MetadataHandlerAttrs ==
    {"filename", "_int_handler", "_ext_handler", "_internal_handler",
     "_external_handler", "fetch_keys", "get_keys", "fetch_key"}

\* The property _external_handler: the object is made on first use.
_external_handler(m, files) ==
    IF m._ext_handler # NoObject THEN ReturnNone(m, files)
    ELSE LET r == New(ExternalKeyHandler, m.filename, files) IN
         IF r.exc # "" THEN Raise(r.exc, m, files)
         ELSE ReturnNone([m EXCEPT !._ext_handler = r.obj], files)

\* fetch_key with the prefix compared as the key is spelled.
fetch_key_case_sensitive(m, files, key) ==
    IF startswith_vimiv(key) THEN Internal_getitem(m, files, key)
    ELSE LET e == _external_handler(m, files) IN
         IF e.exc # "" THEN e
         ELSE LET r == Call_fetch_key(e.obj._ext_handler, files, key) IN
              [r EXCEPT !.obj = [e.obj EXCEPT !._ext_handler = r.obj]]

\* MetadataHandler.fetch_key
fetch_key(m, files, key) ==
    IF startswith_vimiv(lower(key)) THEN Internal_getitem(m, files, key)
    ELSE LET e == _external_handler(m, files) IN
         IF e.exc # "" THEN e
         ELSE LET r == Call_fetch_key(e.obj._ext_handler, files, key) IN
              [r EXCEPT !.obj = [e.obj EXCEPT !._ext_handler = r.obj]]

\* self.<name>(base_key) on a MetadataHandler: AttributeError for a name the
\* object does not have.
call_method(name, m, files, base_key) ==
    IF name \notin MetadataHandlerAttrs THEN Raise("AttributeError", m, files)
    ELSE fetch_key(m, files, base_key)

\* MetadataHandler.fetch_keys: the loop from the i-th key on.  KeyError and
\* TypeError (which unpacking a returned None is) are skipped.
RECURSIVE fetch_keys_from(_, _, _, _, _)
fetch_keys_from(m, files, desired_keys, i, metadata) ==
    IF i > Len(desired_keys) THEN ReturnKeys(m, files, metadata)
    ELSE LET r == call_method("_fetch_key", m, files, strip(desired_keys[i])) IN
         IF r.exc \in {"KeyError", "TypeError"}
         THEN fetch_keys_from(r.obj, files, desired_keys, i + 1, metadata)
         ELSE IF r.exc # "" THEN Raise(r.exc, r.obj, files)
         ELSE IF r.triple = None3
         THEN fetch_keys_from(r.obj, files, desired_keys, i + 1, metadata)
         ELSE fetch_keys_from(r.obj, files, desired_keys, i + 1,
                              metadata \cup {r.triple.key})

fetch_keys(m, files, desired_keys) ==
    fetch_keys_from(m, files, desired_keys, 1, {})

\* MetadataHandler.get_keys, created and iterated to its end: both arguments
\* of itertools.chain are evaluated in the call.
get_keys(m, files) ==
    LET e == _external_handler(m, files) IN
    IF e.exc # "" THEN e
    ELSE LET r == Call_get_keys(e.obj._ext_handler, files) IN
         IF r.exc # "" THEN Raise(r.exc, e.obj, files)
         ELSE ReturnKeys(e.obj, files, Internal_get_keys \cup r.keys)

(* ---------------------------------------------------------------------- *)
(* exif.py: the calls a user of the module makes                            *)
(* ---------------------------------------------------------------------- *)

\* The longest list of keys asked for in one fetch_keys.
MaxKeys == 2

KeyLists == UNION {[1..n -> Keys] : n \in 0..MaxKeys}

\* The files metadata is read from, and the files it is copied to.
SourcePaths == {"a.jpg", "t.png", "/mnt/c.jpg"}

DestPaths == {"n.jpg", "m.gif", "/mnt/c.jpg"}

\* How the last call ended: the call, its exception and what it returned.
Ret(op, r) ==
    [op |-> op, exc |-> r.exc, triple |-> r.triple, keys |-> r.keys,
     str |-> r.str]

NoRet == Ret("", ReturnNone(NoObject, <<>>))

\* The variables of the writer that exif.py leaves alone.
wvars == <<h, jobs, autowrite, piexif, threads, mainpc>>

NewMetadataHandler(filename) ==
    /\ mh' = MetadataHandler(filename)
    /\ ret' = Ret("MetadataHandler", ReturnNone(NoObject, fs))
    /\ UNCHANGED <<wvars, fs, pyexiv2, ExternalKeyHandler, eh, snap, hvars>>

MetadataHandler_fetch_keys(desired_keys) ==
    /\ mh # NoMetadataHandler
    /\ LET r == fetch_keys(mh, fs, desired_keys) IN
        /\ mh' = r.obj
        /\ ret' = Ret("fetch_keys", r)
    /\ UNCHANGED <<wvars, fs, pyexiv2, ExternalKeyHandler, eh, snap, hvars>>

MetadataHandler_get_keys ==
    /\ mh # NoMetadataHandler
    /\ LET r == get_keys(mh, fs) IN
        /\ mh' = r.obj
        /\ ret' = Ret("get_keys", r)
    /\ UNCHANGED <<wvars, fs, pyexiv2, ExternalKeyHandler, eh, snap, hvars>>

MetadataHandler_fetch_key(key) ==
    /\ mh # NoMetadataHandler
    /\ LET r == fetch_key(mh, fs, key) IN
        /\ mh' = r.obj
        /\ ret' = Ret("fetch_key", r)
    /\ UNCHANGED <<wvars, fs, pyexiv2, ExternalKeyHandler, eh, snap, hvars>>

\* handler = ExternalKeyHandler(filename); no object when __init__ raises.
NewExternalKeyHandler(filename) ==
    /\ LET r == New(ExternalKeyHandler, filename, fs) IN
        /\ eh' = r.obj
        /\ ret' = Ret("ExternalKeyHandler", r)
    /\ UNCHANGED <<wvars, fs, pyexiv2, ExternalKeyHandler, mh, snap, hvars>>

Handle_fetch_key(key) ==
    /\ eh # NoObject
    /\ LET r == Call_fetch_key(eh, fs, key) IN
        /\ eh' = r.obj
        /\ ret' = Ret("handle.fetch_key", r)
    /\ UNCHANGED <<wvars, fs, pyexiv2, ExternalKeyHandler, mh, snap, hvars>>

Handle_get_keys ==
    /\ eh # NoObject
    /\ LET r == Call_get_keys(eh, fs) IN
        /\ eh' = r.obj
        /\ ret' = Ret("handle.get_keys", r)
    /\ UNCHANGED <<wvars, fs, pyexiv2, ExternalKeyHandler, mh, snap, hvars>>

Handle_get_date_time ==
    /\ eh # NoObject
    /\ LET r == Call_get_date_time(eh, fs) IN
        /\ eh' = r.obj
        /\ ret' = Ret("handle.get_date_time", r)
    /\ UNCHANGED <<wvars, fs, pyexiv2, ExternalKeyHandler, mh, snap, hvars>>

Handle_copy_metadata(dest, reset_orientation) ==
    /\ eh # NoObject
    /\ LET r == Call_copy_metadata(eh, fs, dest, reset_orientation) IN
        /\ eh' = r.obj
        /\ fs' = r.files
        /\ ret' = Ret("handle.copy_metadata", r)
    /\ UNCHANGED <<wvars, pyexiv2, ExternalKeyHandler, mh, snap, hvars>>

(* ---------------------------------------------------------------------- *)
(* Saving the same image twice                                              *)
(* ---------------------------------------------------------------------- *)

\* The destination of the first save, and the files as the first save left
\* them.
Snap(path, files) == [path |-> path, fs |-> files]

\* The image is opened; nothing was saved yet and nothing is edited.
SaveTwiceOpen(path) ==
    /\ Len(jobs) = 0
    /\ NewImageOpened(path)

\* :write [path], the first time.
SaveFirst(path) ==
    /\ mainpc = "running"
    /\ Len(jobs) = 0
    /\ LET dest == IF path # "" THEN path ELSE h.path
           st == write_pixmap(St, h.cur, dest)
       IN /\ dest \in Paths
          /\ h' = st.h
          /\ jobs' = st.jobs
          /\ snap' = Snap(dest, snap.fs)
    /\ UNCHANGED <<fs, autowrite, piexif, threads, mainpc>>
    /\ UNCHANGED <<pyexiv2, ExternalKeyHandler, mh, eh, ret, hvars>>

\* The same :write again, once the first runner has ended.
SaveSecond ==
    /\ mainpc = "running"
    /\ Len(jobs) = 1
    /\ jobs[1].pc = "done"
    /\ LET st == write_pixmap(St, h.cur, snap.path) IN
        /\ h' = st.h
        /\ jobs' = st.jobs
    /\ snap' = Snap(snap.path, fs)
    /\ UNCHANGED <<fs, autowrite, piexif, threads, mainpc>>
    /\ UNCHANGED <<pyexiv2, ExternalKeyHandler, mh, eh, ret, hvars>>

(* ---------------------------------------------------------------------- *)
(* commands/history.py: History, and the CommandLine that owns it          *)
(* ---------------------------------------------------------------------- *)

\* max_items, the maxlen of the deque (100 in the source).
MaxItems == 2

\* The texts of the command line and the commands of the history: strings,
\* as sequences of characters.
Texts == {<<>>, <<"a">>, <<"b">>, <<"a", "b">>}

\* text in command
str_contains(command, txt) ==
    \E i \in 0..(Len(command) - Len(txt)) :
        SubSeq(command, i + 1, i + Len(txt)) = txt

\* deque.appendleft on a deque with maxlen: a full deque drops its last
\* element.
appendleft(dq, x) ==
    LET s == <<x>> \o dq IN
    IF Len(s) > MaxItems THEN SubSeq(s, 1, MaxItems) ELSE s

\* deque.popleft
popleft(dq) == Tail(dq)

\* x in dq
deque_contains(dq, x) == \E i \in 1..Len(dq) : dq[i] = x

\* deque.remove: the first occurrence goes.
deque_remove(dq, x) ==
    LET i == CHOOSE k \in 1..Len(dq) :
                 dq[k] = x /\ \A l \in 1..(k - 1) : dq[l] # x
    IN SubSeq(dq, 1, i - 1) \o SubSeq(dq, i + 1, Len(dq))

\* History.__init__
History(commands) ==
    [dq |-> commands, _index |-> 0, _temporary_element_stored |-> FALSE,
     _substr_matches |-> <<>>]

\* How a call of a History method ends: the exception that left it, the
\* object afterwards and the value returned.
HResult(exc, obj, val) == [exc |-> exc, obj |-> obj, val |-> val]

\* History.reset
reset(H) ==
    LET H1 == [H EXCEPT !._index = 0] IN
    IF ~H1._temporary_element_stored THEN HResult("", H1, <<>>)
    ELSE IF Len(H1.dq) = 0 THEN HResult("IndexError", H1, <<>>)
    ELSE HResult("", [H1 EXCEPT !.dq = popleft(@),
                                !._temporary_element_stored = FALSE,
                                !._substr_matches = <<>>], <<>>)

\* History.update
update(H, command) ==
    LET r == reset(H) IN
    IF r.exc # "" THEN r
    ELSE LET dq1 == IF deque_contains(r.obj.dq, command)
                    THEN deque_remove(r.obj.dq, command)
                    ELSE r.obj.dq
         IN HResult("", [r.obj EXCEPT !.dq = appendleft(dq1, command)], <<>>)

Directions == {"next", "prev"}

\* History.cycle
cycle(H, direction, txt) ==
    IF Len(H.dq) = 0 THEN HResult("", H, <<>>)
    ELSE LET H1 == IF ~H._temporary_element_stored
                   THEN [H EXCEPT !.dq = appendleft(@, txt),
                                  !._temporary_element_stored = TRUE]
                   ELSE H
             i == IF direction = "next"
                  THEN (H1._index + 1) % Len(H1.dq)
                  ELSE (H1._index - 1) % Len(H1.dq)
         IN HResult("", [H1 EXCEPT !._index = i], H1.dq[i + 1])

\* History.substr_cycle: the matches are collected only by the call that
\* stores the temporary element.
substr_cycle(H, direction, txt) ==
    IF Len(H.dq) = 0 THEN HResult("", H, <<>>)
    ELSE LET dq1 == appendleft(H.dq, txt)
             H1 == IF ~H._temporary_element_stored
                   THEN [H EXCEPT
                           !.dq = dq1,
                           !._temporary_element_stored = TRUE,
                           !._substr_matches =
                              @ \o SelectSeq(dq1,
                                     LAMBDA command : str_contains(command, txt))]
                   ELSE H
             n == Len(H1._substr_matches)
         IN IF n = 0 THEN HResult("ZeroDivisionError", H1, <<>>)
            ELSE LET i == IF direction = "next"
                          THEN (H1._index + 1) % n
                          ELSE (H1._index - 1) % n
                 IN HResult("", [H1 EXCEPT !._index = i],
                            H1._substr_matches[i + 1])

\* CommandLine.__init__: the History holds what history.read() found, and
\* the line edit is empty.
CommandLine(commands) == [_history |-> History(commands), text |-> <<>>]

\* How the last call into the command line ended.
HRet(op, r) == [op |-> op, exc |-> r.exc, val |-> r.val]

NoHRet == HRet("", HResult("", History(<<>>), <<>>))

\* The variables of the writer and of exif.py, which the command line
\* leaves alone.
nonhvars ==
    <<h, jobs, fs, autowrite, piexif, threads, mainpc, pyexiv2,
      ExternalKeyHandler, mh, eh, ret, snap>>

\* The stored commands as they are when a call is about to store the
\* temporary element.
Before(H) ==
    IF ~H._temporary_element_stored /\ Len(H.dq) > 0 THEN H.dq ELSE before

\* CommandLine.history: setText does not emit textEdited.
history(direction) ==
    /\ LET r == cycle(cl._history, direction, cl.text) IN
        /\ cl' = [_history |-> r.obj,
                  text |-> IF r.exc = "" THEN r.val ELSE cl.text]
        /\ hret' = HRet("history", r)
    /\ before' = Before(cl._history)
    /\ UNCHANGED nonhvars

\* CommandLine.history_substr_search
history_substr_search(direction) ==
    /\ LET r == substr_cycle(cl._history, direction, cl.text) IN
        /\ cl' = [_history |-> r.obj,
                  text |-> IF r.exc = "" THEN r.val ELSE cl.text]
        /\ hret' = HRet("history_substr_search", r)
    /\ before' = Before(cl._history)
    /\ UNCHANGED nonhvars

\* CommandLine._on_return_pressed: the text is stored; what the runners do
\* with it is outside this model.
_on_return_pressed ==
    /\ LET r == update(cl._history, cl.text) IN
        /\ cl' = [cl EXCEPT !._history = r.obj]
        /\ hret' = HRet("_on_return_pressed", r)
    /\ UNCHANGED before
    /\ UNCHANGED nonhvars

\* The user edits the text: textEdited reaches _on_text_edited, which resets
\* the history, through editingFinished when the text is empty.
_on_text_edited(txt) ==
    /\ txt # cl.text
    /\ LET r == reset(cl._history) IN
        /\ cl' = [_history |-> r.obj, text |-> txt]
        /\ hret' = HRet("_on_text_edited", r)
    /\ UNCHANGED before
    /\ UNCHANGED nonhvars

\* editingFinished, connected to History.reset: the line edit loses the
\* focus.
editingFinished ==
    /\ LET r == reset(cl._history) IN
        /\ cl' = [cl EXCEPT !._history = r.obj]
        /\ hret' = HRet("editingFinished", r)
    /\ UNCHANGED before
    /\ UNCHANGED nonhvars

(* ---------------------------------------------------------------------- *)
(* Specification                                                            *)
(* ---------------------------------------------------------------------- *)

InitialFs ==
    [p \in Paths |->
        CASE p = "a.jpg" -> WithExif(File("jpeg", FALSE, 0), Rotation90, TRUE)
          [] p = "m.gif" -> File("gif", FALSE, 0)
          [] p = "t.png" -> File("junk", FALSE, 0)
          [] OTHER -> NoFile]

\* The image handler imports piexif itself and never pyexiv2; no call into
\* exif.py is made in Spec and FairSpec, so its variables stay as they start.
Init ==
    /\ h = NoHandler
    /\ jobs = <<>>
    /\ fs = InitialFs
    /\ autowrite \in BOOLEAN
    /\ piexif \in BOOLEAN
    /\ threads \in 1..MaxThreads
    /\ mainpc = "running"
    /\ pyexiv2 = FALSE
    /\ ExternalKeyHandler = check_external_dependancy(Pyexiv2Class, pyexiv2, piexif)
    /\ mh = NoMetadataHandler
    /\ eh = NoObject
    /\ ret = NoRet
    /\ snap = Snap("", InitialFs)
    /\ cl = CommandLine(<<>>)
    /\ hret = NoHRet
    /\ before = <<>>

WorkerStep(j) ==
    \/ PoolRunNext(j)
    \/ run_can_write(j)
    \/ run_can_read(j)
    \/ write_mkstemp(j)
    \/ write_save(j)
    \/ write_save_end(j)
    \/ write_copy_exif(j)
    \/ write_rename(j)
    \/ write_isfile(j)
    \/ write_is_image(j)
    \/ write_remove(j)

MainStep ==
    \/ \E path \in Paths : NewImageOpened(path)
    \/ \E path \in Paths \cup {""} : write(path)
    \/ TransformEdit
    \/ ManipulateEdit
    \/ SetAutowrite
    \/ _on_quit
    \/ QuitReturn

Next ==
    \/ MainStep
    \/ \E j \in 1..MaxJobs : WorkerStep(j)
    \/ Kill

Spec == Init /\ [][Next]_vars

\* The pool threads keep running whatever the main thread does, and nothing
\* kills the process.
FairNext ==
    \/ MainStep
    \/ \E j \in 1..MaxJobs : WorkerStep(j)

FairSpec ==
    Init /\ [][FairNext]_vars /\ \A j \in 1..MaxJobs : WF_vars(WorkerStep(j))

\* exif.py on its own.  The module is imported with either library there or
\* not; a.jpg is a JPEG with an orientation and a date, a JPEG whose exif
\* holds neither, or a JPEG without exif; n.jpg is a JPEG without exif;
\* nothing is written by the image handler.
ExifSources ==
    {WithExif(File("jpeg", FALSE, 0), Rotation90, TRUE),
     WithExif(File("jpeg", FALSE, 0), "absent", FALSE),
     File("jpeg", FALSE, 0)}

ExifInit ==
    /\ h = NoHandler
    /\ jobs = <<>>
    /\ \E a \in ExifSources :
          fs = [InitialFs EXCEPT !["a.jpg"] = a, !["n.jpg"] = File("jpeg", FALSE, 0)]
    /\ autowrite = FALSE
    /\ piexif \in BOOLEAN
    /\ threads = 1
    /\ mainpc = "running"
    /\ pyexiv2 \in BOOLEAN
    /\ ExternalKeyHandler = check_external_dependancy(Pyexiv2Class, pyexiv2, piexif)
    /\ mh = NoMetadataHandler
    /\ eh = NoObject
    /\ ret = NoRet
    /\ snap = Snap("", InitialFs)
    /\ cl = CommandLine(<<>>)
    /\ hret = NoHRet
    /\ before = <<>>

ExifNext ==
    \/ \E filename \in SourcePaths : NewMetadataHandler(filename)
    \/ \E desired_keys \in KeyLists : MetadataHandler_fetch_keys(desired_keys)
    \/ MetadataHandler_get_keys
    \/ \E key \in LookupKeys : MetadataHandler_fetch_key(key)
    \/ \E filename \in SourcePaths : NewExternalKeyHandler(filename)
    \/ \E key \in Keys : Handle_fetch_key(key)
    \/ Handle_get_keys
    \/ Handle_get_date_time
    \/ \E dest \in DestPaths, reset_orientation \in BOOLEAN :
          Handle_copy_metadata(dest, reset_orientation)

ExifSpec == ExifInit /\ [][ExifNext]_vars

\* One image is opened and saved, and saved again when the first runner has
\* ended; the runners take their steps as the pool runs them.
RunStep(j) ==
    \/ run_can_write(j)
    \/ run_can_read(j)
    \/ write_mkstemp(j)
    \/ write_save(j)
    \/ write_save_end(j)
    \/ write_copy_exif(j)
    \/ write_rename(j)
    \/ write_isfile(j)
    \/ write_is_image(j)
    \/ write_remove(j)

SaveTwiceNext ==
    \/ \E path \in Paths : SaveTwiceOpen(path)
    \/ \E path \in Paths \cup {""} : SaveFirst(path)
    \/ SaveSecond
    \/ \E j \in 1..MaxJobs : RunStep(j)

SaveTwiceSpec == Init /\ [][SaveTwiceNext]_vars

\* The command line on its own: the history file holds up to max_items
\* commands; the user edits the text, presses return, leaves the line edit
\* and runs the two history commands in either direction.
HistoryFiles == UNION {[1..n -> Texts \ {<<>>}] : n \in 0..MaxItems}

HistoryInit ==
    /\ h = NoHandler
    /\ jobs = <<>>
    /\ fs = InitialFs
    /\ autowrite = FALSE
    /\ piexif = FALSE
    /\ threads = 1
    /\ mainpc = "running"
    /\ pyexiv2 = FALSE
    /\ ExternalKeyHandler = check_external_dependancy(Pyexiv2Class, pyexiv2, piexif)
    /\ mh = NoMetadataHandler
    /\ eh = NoObject
    /\ ret = NoRet
    /\ snap = Snap("", InitialFs)
    /\ \E commands \in HistoryFiles : cl = CommandLine(commands)
    /\ hret = NoHRet
    /\ before = <<>>

HistoryNext ==
    \/ \E direction \in Directions : history(direction)
    \/ \E direction \in Directions : history_substr_search(direction)
    \/ _on_return_pressed
    \/ \E txt \in Texts : _on_text_edited(txt)
    \/ editingFinished

HistorySpec == HistoryInit /\ [][HistoryNext]_vars

(* ---------------------------------------------------------------------- *)
(* Properties                                                               *)
(* ---------------------------------------------------------------------- *)

\* The step taken is a step of runner j (and not the death of the process).
StepOf(j) == jobs'[j] # jobs[j] /\ mainpc' # "killed"

\* C1: atomicity of a write.  Whenever the content found at a path changes,
\* what is found there afterwards is a complete file encoded by a runner:
\* never an empty or partial file, and never nothing where a file was.  In
\* particular the death of the process changes no file.
C1_Atomicity ==
    [][\A p \in Paths :
         fs'[p] # fs[p] => (Complete(fs'[p]) /\ fs'[p].by = 1)]_vars

\* C2: shutdown drain.  _on_quit has returned only if every runner handed to
\* the pool, the one of the quit-time auto-write included, has ended.
C2_ShutdownDrain ==
    mainpc = "exited" => \A j \in JobIds : jobs[j].pc = "done"

\* The only runner is the one _on_quit itself submitted (auto-write is on and
\* the manipulate flag is still set), and it was committed before the exit.
C2_Witness ==
    /\ mainpc = "exited"
    /\ autowrite
    /\ h.mch
    /\ Len(jobs) = 1
    /\ jobs[1].res = "Committed"

\* C3: no job is lost.  Every runner handed to the pool eventually ends
\* Committed or Rejected.
C3_NoJobLost ==
    \A j \in 1..MaxJobs :
        (Len(jobs) >= j) ~> (Len(jobs) >= j /\ jobs[j].res \in {"Committed", "Rejected"})

\* C4: animation rejection.  A runner whose buffer is no QPixmap takes no
\* step that changes a file or makes a temporary file, and when it ends it
\* ends Rejected(UnsupportedBufferKind), whatever its destination.
C4_AnimationRejected ==
    [][\A j \in JobIds :
         (jobs[j].pc # "done" /\ jobs[j].pixmap # "pixmap" /\ StepOf(j)) =>
            /\ fs' = fs
            /\ jobs'[j].tmp = NoFile
            /\ jobs'[j].pc \in {"can_write", "done"}
            /\ jobs'[j].pc = "done" =>
                  /\ jobs'[j].res = "Rejected"
                  /\ jobs'[j].kind = "UnsupportedBufferKind"]_vars

\* A runner given a QMovie has ended, rejected for its buffer, and every file
\* is as it was at start.
C4_Witness ==
    /\ \E j \in JobIds :
          /\ jobs[j].pc = "done"
          /\ jobs[j].pixmap = "movie"
          /\ jobs[j].kind = "UnsupportedBufferKind"
    /\ fs = InitialFs

\* C5: destination guard.  A runner that has seen a file at its destination
\* goes on to ask whether it is an image, and when it is not, the runner ends
\* Rejected(DestinationNotAnImage) in a step that changes no file and leaves
\* no temporary file.
C5_DestinationGuard ==
    [][\A j \in JobIds :
         /\ (jobs[j].pc = "can_write" /\ jobs[j].pixmap = "pixmap" /\ StepOf(j)
               /\ fs[jobs[j].path] # NoFile) => jobs'[j].pc = "can_read"
         /\ (jobs[j].pc = "can_read" /\ StepOf(j)
               /\ fs[jobs[j].path].k \notin ImageKinds) =>
               /\ fs' = fs
               /\ jobs'[j].res = "Rejected"
               /\ jobs'[j].kind = "DestinationNotAnImage"
               /\ jobs'[j].tmp = NoFile]_vars

\* The only runner was rejected for its destination, and the text file is
\* still what it was.
C5_Witness ==
    /\ Len(jobs) = 1
    /\ jobs[1].res = "Rejected"
    /\ jobs[1].kind = "DestinationNotAnImage"
    /\ fs["t.png"] = File("junk", FALSE, 0)

\* C6: Committed implies valid.  A runner ends Committed only in a step in
\* which its destination holds a valid image; a runner that finds no valid
\* image at its destination after the rename goes on to delete the file, and
\* the deleting step removes it and ends the runner Rejected(CorruptedWrite).
C6_CommittedValid ==
    [][\A j \in JobIds :
         StepOf(j) =>
            /\ jobs'[j].res = "Committed" =>
                  fs[jobs[j].path].k \in ImageKinds
            /\ (jobs[j].pc = "is_image" /\ fs[jobs[j].path].k \notin ImageKinds) =>
                  jobs'[j].pc = "remove"
            /\ jobs[j].pc = "remove" =>
                  /\ fs'[jobs[j].path] = NoFile
                  /\ jobs'[j].res = "Rejected"
                  /\ jobs'[j].kind = "CorruptedWrite"]_vars

\* C7: failures stay inside the job.  No runner ends with an exception that
\* left run().
C7_NoEscape ==
    \A j \in JobIds : jobs[j].res # "Raised"

\* C8: dirty flags are not cleared optimistically.  A step that hands a
\* runner to the pool and keeps the image shown leaves both dirty flags as
\* they were.
C8_NoOptimisticClear ==
    [][(Len(jobs') > Len(jobs) /\ h'.path = h.path) =>
         (h'.tch = h.tch /\ h'.mch = h.mch)]_vars

\* C9: the auto-write decision.  _on_new_image_opened and _on_quit submit
\* exactly one runner, carrying the buffer and the path of the image shown
\* so far, when auto-write is on and a dirty flag is set; otherwise they
\* submit none and both flags are clear afterwards.
C9_AutoWriteDecision ==
    [][((\E p \in Paths : NewImageOpened(p)) \/ _on_quit) =>
         IF autowrite /\ (h.tch \/ h.mch)
         THEN /\ Len(jobs') = Len(jobs) + 1
              /\ SubSeq(jobs', 1, Len(jobs)) = jobs
              /\ jobs'[Len(jobs')].pixmap = h.cur
              /\ jobs'[Len(jobs')].path = h.path
         ELSE /\ jobs' = jobs
              /\ ~h'.tch
              /\ ~h'.mch]_vars

\* C10: no orphaned temporary files.  A runner that has ended has left no
\* temporary file behind.
C10_NoOrphanTemp ==
    \A j \in JobIds : jobs[j].pc = "done" => jobs[j].tmp = NoFile

\* C11: temp file placement.  The temporary file of a runner is made in the
\* directory of its destination, whatever the destination, so that the
\* rename onto the destination never fails for crossing file systems.
C11_TempPlacement ==
    [][\A j \in JobIds :
         StepOf(j) =>
            /\ jobs[j].pc = "mkstemp" => jobs'[j].tmpdir = dirname(jobs[j].path)
            /\ jobs[j].pc = "rename" => jobs'[j].kind # "OSError"]_vars

\* C12: metadata transplant ordering.  With piexif there, a rename that puts
\* a JPEG in the place of a JPEG carrying exif puts a file carrying exif
\* there (the transplant came first), and the orientation tag of the file a
\* rename put at a destination is Normal.
C12_TransplantNormal ==
    [][\A j \in JobIds :
         (StepOf(j) /\ jobs[j].pc = "rename" /\ jobs'[j].pc = "isfile") =>
            /\ (piexif /\ fs[jobs[j].path].k = "jpeg" /\ fs[jobs[j].path].x
                  /\ jobs[j].tmp.k = "jpeg") => fs'[jobs[j].path].x
            /\ fs'[jobs[j].path].x => fs'[jobs[j].path].o = Normal]_vars

\* C13: graceful degradation.  With neither library there, fetch_keys of
\* <<"vimiv.filesize", "DateTime">> returns without an exception, and what it
\* returns holds the file size and no DateTime.
C13_GracefulDegradation ==
    [][(/\ ~pyexiv2
        /\ ~piexif
        /\ MetadataHandler_fetch_keys(<<"vimiv.filesize", "DateTime">>)) =>
          /\ ret'.exc = ""
          /\ ret'.keys \cap {"vimiv.filesize", "Vimiv.FileSize"} # {}
          /\ ret'.keys \cap {"DateTime", "Exif.Image.DateTime"} = {}]_vars

\* C14: batch resilience.  With a library there and a JPEG to read, a
\* fetch_keys of any list of keys returns without an exception, with an
\* entry for each key asked for that resolves (a known vimiv.* key, a tag the
\* file holds) and for nothing else.
C14_BatchResilience ==
    [][\A ks \in KeyLists :
         (/\ pyexiv2 \/ piexif
          /\ mh.filename = "a.jpg"
          /\ MetadataHandler_fetch_keys(ks)) =>
            LET asked == {strip(ks[i]) : i \in DOMAIN ks}
                tags == (IF fs["a.jpg"].o # "absent" THEN {"Orientation"} ELSE {})
                          \cup (IF fs["a.jpg"].dt THEN {"DateTime"} ELSE {})
                short(k) == IF k = "Exif.Image.DateTime" THEN "DateTime"
                            ELSE IF k = "Exif.Image.Orientation" THEN "Orientation"
                            ELSE k
                internal == {k \in asked : lower(k) \in InternalKeys}
                external == {k \in asked : short(k) \in tags}
            IN /\ ret'.exc = ""
               /\ {lower(short(k)) : k \in ret'.keys}
                    = {lower(short(k)) : k \in internal \cup external}]_vars

\* C15: get_keys never raises.  Whatever the libraries and the file,
\* MetadataHandler.get_keys, iterated to its end, ends without an exception
\* and yields the internal keys among what it yields.
C15_GetKeysTotal ==
    [][MetadataHandler_get_keys =>
         /\ ret'.exc = ""
         /\ {"Vimiv.FileSize", "Vimiv.XDimension", "Vimiv.YDimension",
             "Vimiv.FileType"} \subseteq ret'.keys]_vars

\* C16: get_date_time is total.  Whatever the libraries and the file, a
\* get_date_time on a handler object returns a string, the date the file
\* holds or the empty string, and raises nothing.
C16_DateTimeTotal ==
    [][Handle_get_date_time =>
         /\ ret'.exc = ""
         /\ ret'.str = IF Exists(fs[eh.filename]) /\ fs[eh.filename].dt
                       THEN "2021:01:01 12:00:00" ELSE ""]_vars

\* C17: missing-file handle.  On a handler object of piexif or pyexiv2 made
\* for a path where no file is, fetch_key finds nothing, get_keys yields
\* nothing, get_date_time returns the empty string and copy_metadata copies
\* nothing, each without an exception.
C17_MissingFileHandle ==
    [][(/\ eh # NoObject
        /\ eh.cls # "_ExternalKeyHandlerBase"
        /\ fs[eh.filename].k = "absent"
        /\ \/ \E key \in Keys : Handle_fetch_key(key)
           \/ Handle_get_keys
           \/ Handle_get_date_time
           \/ \E dest \in DestPaths, reset_orientation \in BOOLEAN :
                 Handle_copy_metadata(dest, reset_orientation)) =>
          /\ ret'.exc = ""
          /\ ret'.triple = None3
          /\ ret'.keys = {}
          /\ ret'.str = ""
          /\ fs' = fs]_vars

\* C18: backend selection.  The class chosen at import is the pyexiv2 one
\* when pyexiv2 is there, else the piexif one when piexif is there, else the
\* base class; has_exif_support says whether it is not the base class; and
\* no step changes the choice.
C18_BackendSelection ==
    /\ [](/\ ExternalKeyHandler =
                IF pyexiv2 THEN "ExternalKeyHandler"
                ELSE IF piexif THEN "_ExternalKeyHandlerPiexif"
                ELSE "_ExternalKeyHandlerBase"
          /\ has_exif_support <=> (pyexiv2 \/ piexif))
    /\ [][ExternalKeyHandler' = ExternalKeyHandler]_vars

\* Both libraries are there, and a handler object of the pyexiv2 class has
\* answered a get_date_time.
C18_Witness ==
    /\ pyexiv2
    /\ piexif
    /\ has_exif_support
    /\ eh.cls = "ExternalKeyHandler"
    /\ ret.op = "handle.get_date_time"
    /\ ret.exc = ""

\* C19: orientation on metadata copy.  A copy_metadata from a handler object
\* of an existing file onto a JPEG raises nothing; when the source file's
\* orientation is other than Normal the destination's orientation is Normal
\* afterwards if the reset was asked for and the source's if it was not; and
\* when the source file has no orientation tag the destination has none.
C19_OrientationOnCopy ==
    [][\A dest \in DestPaths, reset_orientation \in BOOLEAN :
         (/\ eh # NoObject
          /\ eh.cls # "_ExternalKeyHandlerBase"
          /\ fs[eh.filename].k # "absent"
          /\ fs[dest].k = "jpeg"
          /\ Handle_copy_metadata(dest, reset_orientation)) =>
            LET so == fs[eh.filename].o IN
            /\ ret'.exc = ""
            /\ (so \notin {"absent", "Normal"} /\ reset_orientation) =>
                  fs'[dest].o = "Normal"
            /\ (so \notin {"absent", "Normal"} /\ ~reset_orientation) =>
                  fs'[dest].o = so
            /\ so = "absent" => fs'[dest].o = "absent"]_vars

\* C20: idempotence of a save.  When the second of two equal saves, handed
\* in after the first runner had ended, has ended too, it has ended as the
\* first did, the files are what the first save left, and it has left no
\* file of its own behind.
C20_SaveTwice ==
    (Len(jobs) = 2 /\ jobs[2].pc = "done") =>
        /\ jobs[2].pixmap = jobs[1].pixmap
        /\ jobs[2].res = jobs[1].res
        /\ jobs[2].kind = jobs[1].kind
        /\ fs = snap.fs
        /\ jobs[2].tmp = NoFile

\* The state of the specification's WriteJob that a runner is in: Queued
\* until the pool calls run(); Writing while run() checks, encodes,
\* transplants and renames; Validating while it inspects what the rename
\* left; then how run() ended.
JobState(r) ==
    CASE r.pc = "queued" -> "Queued"
      [] r.pc \in {"can_write", "can_read", "mkstemp", "save", "save_end",
                   "copy_exif", "rename"} -> "Writing"
      [] r.pc \in {"isfile", "is_image", "remove"} -> "Validating"
      [] r.pc = "done" -> r.res
      [] OTHER -> "Killed"

JobStateOrder(s) ==
    CASE s = "Queued" -> 0
      [] s = "Writing" -> 1
      [] s = "Validating" -> 2
      [] OTHER -> 3

\* C21: job lifecycle order.  Every step of a runner keeps it in its state or
\* moves it forward in the order Queued, Writing, Validating, terminal; the
\* terminal state is Committed or Rejected, Committed only after Validating;
\* a runner that has ended takes no further step.
C21_LifecycleOrder ==
    [][\A j \in JobIds :
         StepOf(j) =>
            /\ jobs[j].pc # "done"
            /\ JobStateOrder(JobState(jobs'[j])) >= JobStateOrder(JobState(jobs[j]))
            /\ JobStateOrder(JobState(jobs'[j])) <= JobStateOrder(JobState(jobs[j])) + 1
                  \/ JobState(jobs[j]) = "Writing"
            /\ jobs'[j].pc = "done" => jobs'[j].res \in {"Committed", "Rejected"}
            /\ jobs'[j].res = "Committed" => JobState(jobs[j]) = "Validating"]_vars

\* C23: one job per destination.  No two runners that are queued or running
\* have the same destination path.
C23_OneJobPerDestination ==
    \A i \in JobIds : \A j \in JobIds :
        (/\ i # j
         /\ jobs[i].pc \notin {"done", "killed"}
         /\ jobs[j].pc \notin {"done", "killed"}) =>
            jobs[i].path # jobs[j].path

\* C22: namespace dispatch.  MetadataHandler.fetch_key answers a key that
\* begins with "vimiv" in any letter casing from the internal keys, with the
\* entry of the lower-case key, and makes and asks no ExternalKeyHandler for
\* it; every other key goes to the ExternalKeyHandler, which is made on
\* first use unless its constructor raises.
C22_NamespaceDispatch ==
    [][\A key \in LookupKeys :
         MetadataHandler_fetch_key(key) =>
            IF key \in {"vimiv.filesize", "VIMIV.FILESIZE", "Vimiv.FileType",
                        "vimiv.filetype", "vimiv.foo"}
            THEN /\ mh' = mh
                 /\ key \in {"vimiv.filesize", "VIMIV.FILESIZE"} =>
                       /\ ret'.exc = ""
                       /\ ret'.triple =
                             Triple("Vimiv.FileSize", "Vimiv.FileSize", "value")
                 /\ key \in {"Vimiv.FileType", "vimiv.filetype"} =>
                       /\ ret'.exc = ""
                       /\ ret'.triple =
                             Triple("Vimiv.FileType", "Vimiv.FileType", "value")
                 /\ key = "vimiv.foo" => ret'.exc = "TypeError"
            ELSE /\ \/ /\ mh'._ext_handler # NoObject
                       /\ mh'._ext_handler.cls = ExternalKeyHandler
                    \/ /\ mh' = mh
                       /\ ret'.exc \notin {"", "TypeError"}
                 /\ ret'.triple.key \notin {"Vimiv.FileSize", "Vimiv.FileType"}]_vars

\* An internal key was looked up on a MetadataHandler with a file name and
\* answered, and the MetadataHandler has made no ExternalKeyHandler.
C22_Witness ==
    /\ ret.op = "fetch_key"
    /\ ret.exc = ""
    /\ ret.triple = Triple("Vimiv.FileType", "Vimiv.FileType", "value")
    /\ mh.filename = "a.jpg"
    /\ mh._ext_handler = NoObject

\* C24: copy_metadata does not change its source.  After
\* handler.copy_metadata(dest, reset_orientation), fetch_key and get_keys on
\* the same handler give what they gave before the call, and no file but
\* dest has changed.
C24_CopyLeavesSource ==
    [][\A dest \in DestPaths, reset_orientation \in BOOLEAN :
         Handle_copy_metadata(dest, reset_orientation) =>
            /\ \A key \in Keys :
                  Ret("", Call_fetch_key(eh', fs', key)) =
                     Ret("", Call_fetch_key(eh, fs, key))
            /\ Ret("", Call_get_keys(eh', fs')) = Ret("", Call_get_keys(eh, fs))
            /\ \A p \in Paths \ {dest} : fs'[p] = fs[p]]_vars

\* C25: history browsing is non-destructive.  A reset that ends the
\* browsing (the temporary element is stored) leaves exactly the commands
\* that were stored before the call that stored the temporary element, in
\* the same order, with the temporary element gone and _index 0.
C25_BrowsingNonDestructive ==
    [][((editingFinished \/ \E txt \in Texts : _on_text_edited(txt))
          /\ cl._history._temporary_element_stored) =>
         /\ cl'._history.dq = before
         /\ ~cl'._history._temporary_element_stored
         /\ cl'._history._index = 0]_vars

\* C26: history cycling never fails and stays in range.  CommandLine.history
\* raises nothing and, on a history that is not empty, returns the element
\* of the history at _index, which is in range; history_substr_search on a
\* history that is not empty raises nothing and returns an element of the
\* history that contains the text stored when the browsing began.
C26_CyclingInRange ==
    [][\A direction \in Directions :
         /\ history(direction) =>
               /\ hret'.exc = ""
               /\ Len(cl._history.dq) > 0 =>
                     /\ cl'._history._index \in 0..(Len(cl'._history.dq) - 1)
                     /\ hret'.val = cl'._history.dq[cl'._history._index + 1]
         /\ (history_substr_search(direction) /\ Len(cl._history.dq) > 0) =>
               /\ hret'.exc = ""
               /\ \E i \in 1..Len(cl'._history.dq) :
                     hret'.val = cl'._history.dq[i]
               /\ str_contains(hret'.val, cl'._history.dq[1])]_vars

====
